---- MODULE Spec2Model ----
(***************************************************************************)
(* Carbon Emissions Network Map: the record aggregator and radial layout   *)
(* of dataProcessor.js and the scene composer and event handlers of        *)
(* agi_dashboard/app.js, as one state machine.                             *)
(*                                                                         *)
(* Units.  JavaScript numbers that are not integers are held as scaled     *)
(* integers:                                                               *)
(*   zoom        tenths            (3.5 is 35, 7.5 is 75)                  *)
(*   opacity     hundredths        (1 is 100)                              *)
(*   text sizes  thousandths of a pixel                                    *)
(*   map lengths hundredths of a map unit                                  *)
(* Time is in milliseconds and passes in steps of 100.                     *)
(* Positions are kept symbolically: a position is the sequence of polar    *)
(* offsets whose sum it is, so that cos and sin are never evaluated.       *)
(***************************************************************************)
EXTENDS Integers, Sequences, FiniteSets, TLC

VARIABLES
    pc,             \* position of init(): app.js 12-42
    rawData,        \* rows resolved by parseCSV (local of init)
    idx,            \* index of the next row of rawData.forEach
    departments,    \* local Map of processEmissionsData, in insertion order
    trips,          \* local array of processEmissionsData
    totalEmissions, \* local accumulator of processEmissionsData
    graphData,      \* app.js 7
    deckgl,         \* app.js 6: the rendering surface (view state, layers prop)
    currentZoom,    \* app.js 9
    searchMatches,  \* app.js 10
    inputValue,     \* value of the #text-search input element
    searchTimeout,  \* app.js 219-225: the pending timers set by the input
                    \* listener, each the milliseconds left before it is due
    sinceInput      \* milliseconds since the last input event, up to SEARCH_DELAY

vars == <<pc, rawData, idx, departments, trips, totalEmissions, graphData,
          deckgl, currentZoom, searchMatches, inputValue, searchTimeout,
          sinceInput>>

----------------------------------------------------------------------------
(* Bounds and input domains *)

\* Largest number of rows parseCSV resolves with.
MaxRows == 2

\* A variable that holds null or an object holds NULL or Some(object).
NULL == <<>>
Some(v) == <<v>>
Val(x) == x[1]

\* Rows of the input table.  A column that is absent from a row (an empty
\* cell) is a field absent from the record.  'Business Dept' is written
\* BusinessDept, and so on for the other column names.
RowSales100 ==
    [BusinessDept |-> "Sales", CarbonEmission |-> 100, TripID |-> "T1",
     Purpose |-> "Training", ShippingType |-> "Air",
     DepartureCity |-> "NYC", ArrivalCity |-> "SF", NetCosts |-> 50]
RowSales300 ==
    [BusinessDept |-> "Sales", CarbonEmission |-> 300, TripID |-> "T2",
     Purpose |-> "Training", ShippingType |-> "Rail",
     DepartureCity |-> "NYC", ArrivalCity |-> "SF", NetCosts |-> 20]
RowUnderscoreDept ==
    [BusinessDept |-> "A_B", CarbonEmission |-> 7, TripID |-> "T3",
     Purpose |-> "C"]
RowUnderscorePurpose ==
    [BusinessDept |-> "A", CarbonEmission |-> 5, Purpose |-> "B_C"]
RowNoDept ==
    [CarbonEmission |-> 40, TripID |-> "T5", Purpose |-> "Training"]
RowNoEmission ==
    [BusinessDept |-> "Sales", TripID |-> "T6", Purpose |-> "Training"]
RowZeroEmission ==
    [BusinessDept |-> "Engineering", CarbonEmission |-> 0, TripID |-> "T7"]

Rows == {RowSales100, RowSales300, RowUnderscoreDept, RowUnderscorePurpose,
         RowNoDept, RowNoEmission, RowZeroEmission}

\* Math.random().toString(36).substr(2, 9): the id drawn for the k-th trip of
\* a run.  The draws of one run are taken to be pairwise distinct (two of
\* them agree with probability 36^-9).
RandomIds == <<"k3x9q0z1a", "p7m2w8c4e", "b5n1v6y3d", "h8j4t2r7s", "w0f6g9u2m",
               "c1d8e5a7x">>

\* Outcomes of the Math.random() draws that place the trips of one run: the
\* k-th trip is placed by the k-th pair <<U1, U2>>, in hundredths.
PositionDraws ==
    {<<<<25, 50>>, <<81, 10>>, <<4, 96>>, <<60, 33>>>>,
     <<<<81, 10>>, <<25, 50>>, <<60, 33>>, <<4, 96>>>>}

\* Zoom values (tenths) that a viewport-change event reports; minZoom and
\* maxZoom of the view state are -2 and 20.
ZoomInputs == {-20, 0, 30, 40, 50, 60, 75, 80, 120, 200}

\* Texts typed into the search box.
SearchTerms == {"", "sales", "zz"}

\* The delay of the search box's timer, in milliseconds (app.js 225).
SEARCH_DELAY == 200

----------------------------------------------------------------------------
(* JavaScript string and value helpers *)

UpperToLower ==
    [c \in {"A", "B", "C", "E", "F", "N", "O", "R", "S", "T", "U", "Y"} |->
        CASE c = "A" -> "a" [] c = "B" -> "b" [] c = "C" -> "c"
          [] c = "E" -> "e" [] c = "F" -> "f" [] c = "N" -> "n"
          [] c = "O" -> "o" [] c = "R" -> "r" [] c = "S" -> "s"
          [] c = "T" -> "t" [] c = "U" -> "u" [] c = "Y" -> "y"]

\* String.prototype.toLowerCase
RECURSIVE toLowerCase(_)
toLowerCase(s) ==
    IF Len(s) = 0 THEN ""
    ELSE LET c == SubSeq(s, 1, 1)
         IN  (IF c \in DOMAIN UpperToLower THEN UpperToLower[c] ELSE c)
                 \o toLowerCase(SubSeq(s, 2, Len(s)))

\* String.prototype.includes
includes(s, term) ==
    \E k \in 1..(Len(s) - Len(term) + 1) : SubSeq(s, k, k + Len(term) - 1) = term

\* String.prototype.trim
RECURSIVE trim(_)
trim(s) ==
    IF Len(s) = 0 THEN s
    ELSE IF SubSeq(s, 1, 1) = " " THEN trim(SubSeq(s, 2, Len(s)))
    ELSE IF SubSeq(s, Len(s), Len(s)) = " " THEN trim(SubSeq(s, 1, Len(s) - 1))
    ELSE s

\* Truthiness of a string-valued and of a number-valued column of a row.
TruthyStr(row, f) == f \in DOMAIN row /\ row[f] # ""
TruthyNum(row, f) == f \in DOMAIN row /\ row[f] # 0

\* row[f] || dflt
OrDefault(row, f, dflt) == IF TruthyStr(row, f) THEN row[f] ELSE dflt

\* Floor of the square root.
ISqrt(n) == CHOOSE r \in 0..4096 : r * r <= n /\ n < (r + 1) * (r + 1)

\* Concatenation of a sequence of sequences.
RECURSIVE Flatten(_)
Flatten(ss) == IF ss = <<>> THEN <<>> ELSE Head(ss) \o Flatten(Tail(ss))

\* The distinct elements of a sequence in order of first occurrence: the key
\* order of a JavaScript Map filled from it.
RECURSIVE MapKeys(_)
MapKeys(s) ==
    IF s = <<>> THEN <<>>
    ELSE LET front == MapKeys(SubSeq(s, 1, Len(s) - 1))
             last  == s[Len(s)]
         IN  IF \E k \in 1..Len(front) : front[k] = last
             THEN front ELSE Append(front, last)

\* Number.prototype.toString for the small indexes used in ids.
Digits == <<"0", "1", "2", "3", "4", "5", "6", "7", "8", "9">>
NumToString(n) == IF n < 10 THEN Digits[n + 1]
                  ELSE Digits[(n \div 10) + 1] \o Digits[(n % 10) + 1]

----------------------------------------------------------------------------
(* dataProcessor.js: tables *)

DEPARTMENT_COLORS ==
    [n \in {"Sales", "Marketing", "Customer Support", "Executive Management",
            "Value Engineering", "Services", "Ecosystem", "Office Management",
            "Legal", "Finance", "Operations", "Product Management", "HR",
            "Engineering"} |->
        CASE n = "Sales" -> <<56, 189, 248>>
          [] n = "Marketing" -> <<244, 114, 182>>
          [] n = "Customer Support" -> <<52, 211, 153>>
          [] n = "Executive Management" -> <<167, 139, 250>>
          [] n = "Value Engineering" -> <<251, 191, 36>>
          [] n = "Services" -> <<34, 211, 238>>
          [] n = "Ecosystem" -> <<251, 113, 133>>
          [] n = "Office Management" -> <<74, 222, 128>>
          [] n = "Legal" -> <<251, 146, 60>>
          [] n = "Finance" -> <<192, 132, 252>>
          [] n = "Operations" -> <<14, 165, 233>>
          [] n = "Product Management" -> <<250, 204, 21>>
          [] n = "HR" -> <<129, 140, 248>>
          [] n = "Engineering" -> <<45, 212, 191>>]

PURPOSE_COLORS ==
    [n \in {"Conference/Exhibition", "Customer Visit", "Internal Meeting",
            "Training", "Project Work", "Other"} |->
        CASE n = "Conference/Exhibition" -> <<248, 113, 113>>
          [] n = "Customer Visit" -> <<96, 165, 250>>
          [] n = "Internal Meeting" -> <<250, 204, 21>>
          [] n = "Training" -> <<192, 132, 252>>
          [] n = "Project Work" -> <<74, 222, 128>>
          [] n = "Other" -> <<148, 163, 184>>]

\* Infinity: larger than every zoom value, and Infinity - fadeRange still is.
Infinity == 2147483647

\* Zoom thresholds, in tenths.
ZOOM_THRESHOLDS ==
    [k \in {"department", "trip", "purpose", "transport", "route"} |->
        CASE k = "department" -> [min |-> 0,  max |-> Infinity]
          [] k = "trip"       -> [min |-> 40, max |-> Infinity]
          [] k = "purpose"    -> [min |-> 40, max |-> Infinity]
          [] k = "transport"  -> [min |-> 60, max |-> Infinity]
          [] k = "route"      -> [min |-> 75, max |-> Infinity]]

getDepartmentColor(name) ==
    IF name \in DOMAIN DEPARTMENT_COLORS THEN DEPARTMENT_COLORS[name]
    ELSE <<128, 128, 128>>

----------------------------------------------------------------------------
(* dataProcessor.js: processEmissionsData *)

\* rowAccepted with the test of the emission field left out.
rowAcceptedDeptOnly(row) == TruthyStr(row, "BusinessDept")

\* Line 69 testing that the emission value is present, not that it is truthy.
rowAcceptedPresent(row) ==
    TruthyStr(row, "BusinessDept") /\ "CarbonEmission" \in DOMAIN row

\* Line 69: the row is processed unless a field is falsy.
rowAccepted(row) ==
    TruthyStr(row, "BusinessDept") /\ TruthyNum(row, "CarbonEmission")

\* Line 72: Number(row['Carbon Emission']) || 0, for a numeric column.
rowEmissions(row) == IF TruthyNum(row, "CarbonEmission") THEN row.CarbonEmission ELSE 0

\* Lines 76-85: the object stored for a department first seen.
newDepartment(deptName) ==
    [id |-> "dept_" \o deptName, type |-> "department", name |-> deptName,
     emissions |-> 0, tripCount |-> 0, color |-> getDepartmentColor(deptName),
     radius |-> 0, pos |-> <<>>]

\* addTrip with "=" written for "+=".
addTripAssign(dept, emissions) ==
    [dept EXCEPT !.emissions = emissions, !.tripCount = @ + 1]

\* Lines 88-90.
addTrip(dept, emissions) ==
    [dept EXCEPT !.emissions = @ + emissions, !.tripCount = @ + 1]

\* newTrip with the trip coloured by its purpose instead of its department.
newTripPurposeColor(row, rid) ==
    [id |-> "trip_" \o OrDefault(row, "TripID", rid),
     type |-> "trip",
     department |-> row.BusinessDept,
     purpose |-> OrDefault(row, "Purpose", "Other"),
     transportMode |-> OrDefault(row, "ShippingType", "Other"),
     route |-> OrDefault(row, "DepartureCity", "Unknown") \o " -> "
                  \o OrDefault(row, "ArrivalCity", "Unknown"),
     emissions |-> rowEmissions(row),
     cost |-> IF TruthyNum(row, "NetCosts") THEN row.NetCosts ELSE 0,
     color |-> IF OrDefault(row, "Purpose", "Other") \in DOMAIN PURPOSE_COLORS
               THEN PURPOSE_COLORS[OrDefault(row, "Purpose", "Other")]
               ELSE <<128, 128, 128>>,
     pos |-> <<>>]

\* Lines 94-105; rid is the outcome of the Math.random() id, used only when
\* the row has no Trip ID.  The arrow of the route string is written "->".
newTrip(row, rid) ==
    [id |-> "trip_" \o OrDefault(row, "TripID", rid),
     type |-> "trip",
     department |-> row.BusinessDept,
     purpose |-> OrDefault(row, "Purpose", "Other"),
     transportMode |-> OrDefault(row, "ShippingType", "Other"),
     route |-> OrDefault(row, "DepartureCity", "Unknown") \o " -> "
                  \o OrDefault(row, "ArrivalCity", "Unknown"),
     emissions |-> rowEmissions(row),
     cost |-> IF TruthyNum(row, "NetCosts") THEN row.NetCosts ELSE 0,
     color |-> getDepartmentColor(row.BusinessDept),
     pos |-> <<>>]

\* Index of the department named deptName in the Map, 0 when it has none.
deptIndex(depts, deptName) ==
    IF \E k \in 1..Len(depts) : depts[k].name = deptName
    THEN CHOOSE k \in 1..Len(depts) : depts[k].name = deptName
    ELSE 0

\* Lines 75-91: the Map after the row's department is created if new and
\* the row is added to it.
departmentsAfter(depts, row) ==
    LET deptName == row.BusinessDept
        have == IF deptIndex(depts, deptName) = 0
                THEN Append(depts, newDepartment(deptName)) ELSE depts
        k == deptIndex(have, deptName)
    IN  [have EXCEPT ![k] = addTrip(have[k], rowEmissions(row))]

\* Line 112, in hundredths: 100 + sqrt(emissions) * 0.5, rounded down.
deptRadius(dept) == 10000 + ISqrt(2500 * dept.emissions)

\* Lines 110-113.
withRadii(depts) ==
    [k \in 1..Len(depts) |-> [depts[k] EXCEPT !.radius = deptRadius(depts[k])]]

----------------------------------------------------------------------------
(* dataProcessor.js: positionNodes *)

\* Layout constants, in hundredths of a map unit (lines 135-142).
PURPOSE_GROUP_RADIUS == 7500
TRANSPORT_GROUP_RADIUS == 2200
ROUTE_GROUP_RADIUS == 600
DEPT_CLUSTER_RADIUS == 18000

\* routeKey reading a property the trip does not have.
routeKeyUndefined(trip) == "Unknown Route"

\* Lines 164 and 169: the keys under which a trip is grouped.
transportKey(trip) == IF trip.transportMode # "" THEN trip.transportMode ELSE "Other"
routeKey(trip) == IF trip.route # "" THEN trip.route ELSE "Unknown Route"

\* Lines 157-171: the keys of the nested Maps under which a trip is stored.
groupPath(trip) == <<trip.department, trip.purpose, transportKey(trip), routeKey(trip)>>

\* Indexes of the trips stored under the keys of prefix, ascending.
TripIndexes(ts, prefix) ==
    SelectSeq([k \in 1..Len(ts) |-> k],
              LAMBDA k : SubSeq(groupPath(ts[k]), 1, Len(prefix)) = prefix)

\* Lines 145-153: department i (0-based) sits on the spiral at radius
\* 700 * sqrt(i) and angle i * 137.508 degrees; textSize in thousandths.
placeDepartment(dept, i) ==
    [dept EXCEPT !.pos = << <<"spiral", i>> >>]
        @@ [textSize |-> 32000 + 12 * ISqrt(500 * dept.emissions)]

\* Lines 188-197.
purposeNode(deptName, purpose, at) ==
    [id |-> "group_" \o deptName \o "_" \o purpose,
     type |-> "purpose-group", name |-> purpose, department |-> deptName,
     pos |-> at, color |-> getDepartmentColor(deptName),
     radius |-> PURPOSE_GROUP_RADIUS + 2000]

\* Lines 210-220.
transportNode(deptName, purpose, transport, at) ==
    [id |-> "trans_" \o deptName \o "_" \o purpose \o "_" \o transport,
     type |-> "transport-group", name |-> transport, department |-> deptName,
     purpose |-> purpose,
     pos |-> at, color |-> getDepartmentColor(deptName),
     radius |-> TRANSPORT_GROUP_RADIUS + 1000]

\* Lines 234-245; k is the 0-based index of the route in its transport group.
routeNode(deptName, purpose, transport, route, k, at) ==
    [id |-> "route_" \o deptName \o "_" \o purpose \o "_" \o transport
                \o "_" \o NumToString(k),
     type |-> "route-group", name |-> route, department |-> deptName,
     purpose |-> purpose, transport |-> transport,
     pos |-> at, color |-> getDepartmentColor(deptName),
     radius |-> ROUTE_GROUP_RADIUS + 200]

\* Lines 249-257: the trip at a random point of the route's disk; draw is
\* <<U1, U2>>, r = ROUTE_GROUP_RADIUS * sqrt(U1) * 0.8, angle = U2 * 2 * PI.
placeTrip(trip, at, draw) ==
    [trip EXCEPT !.pos = Append(at, <<"disk", draw[1], draw[2]>>)]
        @@ [textSize |-> 8000]

\* Lines 229-258: the route groups of one transport group, each followed by
\* its trips.  The offset <<"ring", R, k, n>> is R at angle 2 * PI * k / n.
routeNodes(deptName, purpose, transport, at, ts, draws) ==
    LET mine == TripIndexes(ts, <<deptName, purpose, transport>>)
        routes == MapKeys([k \in 1..Len(mine) |-> routeKey(ts[mine[k]])])
        n == Len(routes)
        routeLayoutRadius == IF n > 1 THEN (TRANSPORT_GROUP_RADIUS * 6) \div 10 ELSE 0
    IN  Flatten([k \in 1..n |->
            LET routeAt == Append(at, <<"ring", routeLayoutRadius, k - 1, n>>)
                tripList == SelectSeq(mine, LAMBDA m : routeKey(ts[m]) = routes[k])
            IN  <<routeNode(deptName, purpose, transport, routes[k], k - 1, routeAt)>>
                    \o [m \in 1..Len(tripList) |->
                            placeTrip(ts[tripList[m]], routeAt, draws[tripList[m]])]])

\* Lines 205-259: the transport groups of one purpose group.
transportNodes(deptName, purpose, at, ts, draws) ==
    LET mine == TripIndexes(ts, <<deptName, purpose>>)
        transports == MapKeys([k \in 1..Len(mine) |-> transportKey(ts[mine[k]])])
        n == Len(transports)
        transportLayoutRadius == IF n > 1 THEN (PURPOSE_GROUP_RADIUS * 65) \div 100 ELSE 0
    IN  Flatten([j \in 1..n |->
            LET transportAt == Append(at, <<"ring", transportLayoutRadius, j - 1, n>>)
            IN  <<transportNode(deptName, purpose, transports[j], transportAt)>>
                    \o routeNodes(deptName, purpose, transports[j], transportAt, ts, draws)])

\* Lines 175-261: the purpose groups of one department.
purposeNodes(deptName, deptAt, ts, draws) ==
    LET mine == TripIndexes(ts, <<deptName>>)
        purposes == MapKeys([k \in 1..Len(mine) |-> ts[mine[k]].purpose])
        n == Len(purposes)
    IN  Flatten([i \in 1..n |->
            LET purposeAt == Append(deptAt, <<"ring", DEPT_CLUSTER_RADIUS, i - 1, n>>)
            IN  <<purposeNode(deptName, purposes[i], purposeAt)>>
                    \o transportNodes(deptName, purposes[i], purposeAt, ts, draws)])

\* Lines 132-264.  draws[k] is the pair of random draws that places ts[k].
positionNodes(depts, ts, draws) ==
    LET deptArray == [i \in 1..Len(depts) |-> placeDepartment(depts[i], i - 1)]
        deptGroups == MapKeys([k \in 1..Len(ts) |-> ts[k].department])
    IN  deptArray \o
        Flatten([g \in 1..Len(deptGroups) |->
            LET k == deptIndex(deptArray, deptGroups[g])
            IN  IF k = 0 THEN <<>>
                ELSE purposeNodes(deptGroups[g], deptArray[k].pos, ts, draws)])

\* Lines 109-128: what processEmissionsData returns.  The Department objects
\* of the node list and of the departments array are the same objects.
processResult(depts, ts, total, draws) ==
    LET sized == withRadii(depts)
        nodes == positionNodes(sized, ts, draws)
    IN  [nodes |-> nodes,
         departments |-> SubSeq(nodes, 1, Len(sized)),
         totalEmissions |-> total,
         counts |-> [departments |-> Len(sized), trips |-> Len(ts)]]

----------------------------------------------------------------------------
(* dataProcessor.js: getLayerOpacity, in hundredths *)

\* getLayerOpacity with "<=" written for "<" at the lower threshold.
getLayerOpacityStrictMin(nodeType, zoom) ==
    IF nodeType \notin DOMAIN ZOOM_THRESHOLDS THEN 0
    ELSE IF zoom <= ZOOM_THRESHOLDS[nodeType].min THEN 0
    ELSE IF zoom >= ZOOM_THRESHOLDS[nodeType].max THEN 0
    ELSE 100

getLayerOpacity(nodeType, zoom) ==
    IF nodeType \notin DOMAIN ZOOM_THRESHOLDS THEN 0
    ELSE LET threshold == ZOOM_THRESHOLDS[nodeType]
             fadeRange == 5
         IN  IF zoom < threshold.min THEN 0
             ELSE IF zoom >= threshold.max THEN 0
             ELSE IF zoom > threshold.max - fadeRange
                  THEN ((threshold.max - zoom) * 100) \div fadeRange
             ELSE 100

----------------------------------------------------------------------------
(* app.js: layers.  A layer's data refers to node objects; a node object is *)
(* referred to by its index in the node list.  A function that returns a    *)
(* layer or null returns Some(layer) or NULL.                               *)

Max(a, b) == IF a >= b THEN a ELSE b

\* nodes.filter(n => n.type === nodeType)
filterType(nodes, nodeType) ==
    SelectSeq([k \in 1..Len(nodes) |-> k], LAMBDA k : nodes[k].type = nodeType)

\* Lines 244-289.  Only 'department' has a config entry.
createTextLayer(nodes, nodeType, zoom, opacity) ==
    LET filteredNodes == filterType(nodes, nodeType)
    IN  IF Len(filteredNodes) = 0 \/ opacity <= 0 THEN NULL
        ELSE IF nodeType # "department" THEN NULL
        ELSE Some([id |-> nodeType \o "-text-layer", class |-> "TextLayer",
                   data |-> filteredNodes, pickable |-> TRUE,
                   alpha |-> (255 * opacity + 50) \div 100,
                   getSize |-> Max(8000, 24000 - zoom * 80)])

\* Lines 291-313.
createDepartmentNodeLayer(nodes, zoom, opacity) ==
    LET filteredNodes == filterType(nodes, "department")
    IN  IF Len(filteredNodes) = 0 \/ opacity <= 0 THEN NULL
        ELSE Some([id |-> "department-circle-layer", class |-> "ScatterplotLayer",
                   data |-> filteredNodes, pickable |-> TRUE, opacity |-> opacity])

\* Lines 316-333.
createPurposeHighlightLayer(nodes, zoom) ==
    IF zoom < 40 THEN NULL
    ELSE Some([id |-> "purpose-highlight-layer", class |-> "ScatterplotLayer",
               data |-> filterType(nodes, "purpose-group"), pickable |-> FALSE,
               opacity |-> 20])

\* Lines 336-358.
createPurposeLabelLayer(nodes, zoom) ==
    IF zoom < 40 THEN NULL
    ELSE Some([id |-> "purpose-label-layer", class |-> "TextLayer",
               data |-> filterType(nodes, "purpose-group"), pickable |-> FALSE,
               getSize |-> Max(8000, 14000 - zoom * 30)])

\* Lines 360-385.
createTripLayer(nodes, zoom, opacity) ==
    LET filteredNodes == filterType(nodes, "trip")
    IN  IF Len(filteredNodes) = 0 \/ opacity <= 0 THEN NULL
        ELSE Some([id |-> "trip-layer", class |-> "ScatterplotLayer",
                   data |-> filteredNodes, pickable |-> TRUE, opacity |-> opacity])

\* Lines 388-407.
createTransportHighlightLayer(nodes, zoom) ==
    IF zoom < 60 THEN NULL
    ELSE Some([id |-> "transport-highlight-layer", class |-> "ScatterplotLayer",
               data |-> filterType(nodes, "transport-group"), pickable |-> FALSE,
               opacity |-> 30])

\* Lines 410-432.
createTransportLabelLayer(nodes, zoom) ==
    IF zoom < 60 THEN NULL
    ELSE Some([id |-> "transport-label-layer", class |-> "TextLayer",
               data |-> filterType(nodes, "transport-group"), pickable |-> FALSE,
               getSize |-> Max(6000, 12000 - zoom * 20)])

\* Lines 435-454.
createRouteHighlightLayer(nodes, zoom) ==
    IF zoom < 75 THEN NULL
    ELSE Some([id |-> "route-highlight-layer", class |-> "ScatterplotLayer",
               data |-> filterType(nodes, "route-group"), pickable |-> FALSE,
               opacity |-> 40])

\* Lines 457-479.
createRouteLabelLayer(nodes, zoom) ==
    IF zoom < 75 THEN NULL
    ELSE Some([id |-> "route-label-layer", class |-> "TextLayer",
               data |-> filterType(nodes, "route-group"), pickable |-> FALSE,
               getSize |-> Max(5000, 10000 - zoom * 15)])

\* createAllTextLayers with the purpose labels pushed before the trips.
createAllTextLayersLabelsFirst(nodes, zoom) ==
    LET deptOpacity == getLayerOpacity("department", zoom)
        tripOpacity == getLayerOpacity("trip", zoom)
    IN  (IF zoom >= 40 THEN createPurposeHighlightLayer(nodes, zoom) ELSE <<>>)
     \o (IF zoom >= 60 THEN createTransportHighlightLayer(nodes, zoom) ELSE <<>>)
     \o (IF zoom >= 75 THEN createRouteHighlightLayer(nodes, zoom) ELSE <<>>)
     \o (IF zoom >= 40 /\ zoom < 120 THEN createPurposeLabelLayer(nodes, zoom) ELSE <<>>)
     \o (IF tripOpacity > 0 THEN createTripLayer(nodes, zoom, tripOpacity) ELSE <<>>)
     \o (IF zoom >= 60 /\ zoom < 120 THEN createTransportLabelLayer(nodes, zoom) ELSE <<>>)
     \o (IF zoom >= 75 THEN createRouteLabelLayer(nodes, zoom) ELSE <<>>)
     \o (IF deptOpacity > 0
         THEN createDepartmentNodeLayer(nodes, zoom, deptOpacity)
                  \o createTextLayer(nodes, "department", zoom, deptOpacity)
         ELSE <<>>)

\* A variant that keeps the transport and purpose labels at every zoom from
\* their minimum on.
createAllTextLayersLabelsStay(nodes, zoom) ==
    LET deptOpacity == getLayerOpacity("department", zoom)
        tripOpacity == getLayerOpacity("trip", zoom)
    IN  (IF zoom >= 40 THEN createPurposeHighlightLayer(nodes, zoom) ELSE <<>>)
     \o (IF zoom >= 60 THEN createTransportHighlightLayer(nodes, zoom) ELSE <<>>)
     \o (IF zoom >= 75 THEN createRouteHighlightLayer(nodes, zoom) ELSE <<>>)
     \o (IF tripOpacity > 0 THEN createTripLayer(nodes, zoom, tripOpacity) ELSE <<>>)
     \o (IF zoom >= 60 THEN createTransportLabelLayer(nodes, zoom) ELSE <<>>)
     \o (IF zoom >= 75 THEN createRouteLabelLayer(nodes, zoom) ELSE <<>>)
     \o (IF zoom >= 40 THEN createPurposeLabelLayer(nodes, zoom) ELSE <<>>)
     \o (IF deptOpacity > 0
         THEN createDepartmentNodeLayer(nodes, zoom, deptOpacity)
                  \o createTextLayer(nodes, "department", zoom, deptOpacity)
         ELSE <<>>)

\* Lines 481-541.  "if (layer) layers.push(layer)" appends Some(layer) and
\* appends nothing for NULL.
createAllTextLayers(nodes, zoom) ==
    LET deptOpacity == getLayerOpacity("department", zoom)
        tripOpacity == getLayerOpacity("trip", zoom)
    IN  (IF zoom >= 40 THEN createPurposeHighlightLayer(nodes, zoom) ELSE <<>>)
     \o (IF zoom >= 60 THEN createTransportHighlightLayer(nodes, zoom) ELSE <<>>)
     \o (IF zoom >= 75 THEN createRouteHighlightLayer(nodes, zoom) ELSE <<>>)
     \o (IF tripOpacity > 0 THEN createTripLayer(nodes, zoom, tripOpacity) ELSE <<>>)
     \o (IF zoom >= 60 /\ zoom < 120 THEN createTransportLabelLayer(nodes, zoom) ELSE <<>>)
     \o (IF zoom >= 75 THEN createRouteLabelLayer(nodes, zoom) ELSE <<>>)
     \o (IF zoom >= 40 /\ zoom < 120 THEN createPurposeLabelLayer(nodes, zoom) ELSE <<>>)
     \o (IF deptOpacity > 0
         THEN createDepartmentNodeLayer(nodes, zoom, deptOpacity)
                  \o createTextLayer(nodes, "department", zoom, deptOpacity)
         ELSE <<>>)

\* node.f?.toLowerCase().includes(term)
fieldIncludes(node, f, term) ==
    f \in DOMAIN node /\ includes(toLowerCase(node[f]), term)

\* Lines 543-552.
searchNodes(nodeData, searchTerm) ==
    IF searchTerm = "" \/ trim(searchTerm) = "" THEN NULL
    ELSE LET term == toLowerCase(searchTerm)
         IN  Some(SelectSeq([k \in 1..Len(nodeData) |-> k],
                    LAMBDA k : \/ fieldIncludes(nodeData[k], "name", term)
                               \/ fieldIncludes(nodeData[k], "department", term)
                               \/ fieldIncludes(nodeData[k], "route", term)))

\* Lines 554-570.
createSearchHighlightLayer(matchingNodes, zoom) ==
    IF matchingNodes = NULL \/ Len(Val(matchingNodes)) = 0 THEN NULL
    ELSE Some([id |-> "search-highlight", class |-> "ScatterplotLayer",
               data |-> Val(matchingNodes), pickable |-> FALSE])

\* Lines 85-97, as a function of the globals it reads.
getLayers(graph, zoom, matches) ==
    (IF matches # NULL /\ Len(Val(matches)) > 0
     THEN createSearchHighlightLayer(matches, zoom) ELSE <<>>)
        \o createAllTextLayers(Val(graph).nodes, zoom)

\* Lines 99-102: the rendering surface after updateLayers().
updateLayers(surface, graph, zoom, matches) ==
    IF surface = NULL \/ graph = NULL THEN surface
    ELSE Some([Val(surface) EXCEPT !.layers = getLayers(graph, zoom, matches)])

----------------------------------------------------------------------------
(* The state machine *)

\* The module-level lets of app.js 6-10, before DOMContentLoaded runs init.
Init ==
    /\ pc = "parseCSV"
    /\ rawData = <<>>
    /\ idx = 1
    /\ departments = <<>>
    /\ trips = <<>>
    /\ totalEmissions = 0
    /\ graphData = NULL
    /\ deckgl = NULL
    /\ currentZoom = 0
    /\ searchMatches = NULL
    /\ inputValue = ""
    /\ searchTimeout = {}
    /\ sinceInput = SEARCH_DELAY

\* Papa.parse reads one more row of the table (dataProcessor.js 45-56).
ParseRow ==
    /\ pc = "parseCSV"
    /\ Len(rawData) < MaxRows
    /\ \E row \in Rows : rawData' = Append(rawData, row)
    /\ UNCHANGED <<pc, idx, departments, trips, totalEmissions, graphData,
                   deckgl, currentZoom, searchMatches, inputValue, searchTimeout,
                   sinceInput>>

\* Papa.parse completes: the promise resolves and init calls
\* processEmissionsData(rawData) (app.js 17-20).
ParseComplete ==
    /\ pc = "parseCSV"
    /\ pc' = "forEach"
    /\ UNCHANGED <<rawData, idx, departments, trips, totalEmissions, graphData,
                   deckgl, currentZoom, searchMatches, inputValue, searchTimeout,
                   sinceInput>>

\* Papa.parse fails: the promise rejects and init's catch shows the message
\* (app.js 37-41).
ParseError ==
    /\ pc = "parseCSV"
    /\ pc' = "error"
    /\ rawData' = <<>>
    /\ UNCHANGED <<idx, departments, trips, totalEmissions, graphData,
                   deckgl, currentZoom, searchMatches, inputValue, searchTimeout,
                   sinceInput>>

\* One call of the rawData.forEach callback (dataProcessor.js 67-107).
ForEachRow ==
    /\ pc = "forEach"
    /\ idx <= Len(rawData)
    /\ LET row == rawData[idx]
       IN  IF ~rowAccepted(row)
           THEN UNCHANGED <<departments, trips, totalEmissions>>
           ELSE /\ departments' = departmentsAfter(departments, row)
                /\ totalEmissions' = totalEmissions + rowEmissions(row)
                /\ trips' = Append(trips, newTrip(row, RandomIds[Len(trips) + 1]))
    /\ idx' = idx + 1
    /\ UNCHANGED <<pc, rawData, graphData, deckgl, currentZoom, searchMatches,
                   inputValue, searchTimeout,
                   sinceInput>>

\* The rest of processEmissionsData (dataProcessor.js 109-128): radii,
\* positionNodes, and the result assigned to graphData (app.js 20).  The
\* locals of processEmissionsData are gone when it returns.
ReturnGraphData ==
    /\ pc = "forEach"
    /\ idx > Len(rawData)
    /\ \E draws \in PositionDraws :
           graphData' = Some(processResult(departments, trips, totalEmissions, draws))
    /\ pc' = "initDeckGL"
    /\ idx' = 1
    /\ departments' = <<>>
    /\ trips' = <<>>
    /\ totalEmissions' = 0
    /\ UNCHANGED <<rawData, deckgl, currentZoom, searchMatches, inputValue,
                   searchTimeout, sinceInput>>

\* initDeckGL and setupUI (app.js 52-83, 217-231); init then returns and its
\* local rawData is gone.  The camera centre, computed from the node
\* bounds, is not part of the model.
InitDeckGL ==
    /\ pc = "initDeckGL"
    /\ deckgl' = Some([viewState |-> [zoom |-> 35, minZoom |-> -20, maxZoom |-> 200],
                       layers |-> getLayers(graphData, currentZoom, searchMatches)])
    /\ pc' = "ready"
    /\ rawData' = <<>>
    /\ UNCHANGED <<idx, departments, trips, totalEmissions, graphData,
                   currentZoom, searchMatches, inputValue, searchTimeout,
                   sinceInput>>

\* The module variables of app.js (6-10) that the handlers read and write.
Globals ==
    [graphData |-> graphData, deckgl |-> deckgl,
     currentZoom |-> currentZoom, searchMatches |-> searchMatches]

\* onViewStateChange (app.js 74-79) for a camera that moved to zoom z: the
\* surface holds the new view state, currentZoom is assigned and
\* updateLayers runs.
onViewStateChange(g, z) ==
    [g EXCEPT !.currentZoom = z,
              !.deckgl = updateLayers(
                            Some([Val(g.deckgl) EXCEPT !.viewState.zoom = z]),
                            g.graphData, z, g.searchMatches)]

\* A variant of the timer callback that keeps the matching nodes in
\* graphData.nodes instead of in searchMatches.
searchCallbackNarrowsNodes(g, text) ==
    LET nodes == Val(g.graphData).nodes
        matches == searchNodes(nodes, text)
        kept == IF matches = NULL THEN nodes
                ELSE [k \in 1..Len(Val(matches)) |-> nodes[Val(matches)[k]]]
        graph == Some([Val(g.graphData) EXCEPT !.nodes = kept])
    IN  [g EXCEPT !.graphData = graph,
                  !.deckgl = updateLayers(g.deckgl, graph, g.currentZoom, g.searchMatches)]

\* The timer callback (app.js 222-225): e.target.value is read when the
\* callback runs, searchMatches is assigned and updateLayers runs.
searchCallback(g, text) ==
    LET matches == searchNodes(Val(g.graphData).nodes, text)
    IN  [g EXCEPT !.searchMatches = matches,
                  !.deckgl = updateLayers(g.deckgl, g.graphData, g.currentZoom, matches)]

\* A clearTimeout that cancels nothing.
clearTimeoutNothing(timers) == timers

\* clearTimeout(searchTimeout) (app.js 221): the timer of the handle, which
\* is the one set last and so the one with the most time left, is no
\* longer pending; a handle whose timer has run cancels nothing.
clearTimeout(timers) == {t \in timers : \E u \in timers : u > t}

\* setTimeout(callback, delay) (app.js 222-225).
setTimeout(timers, delay) == timers \cup {delay}

\* onViewStateChange (app.js 74-79): the camera moved to zoom z.
ViewStateChange ==
    /\ pc = "ready"
    /\ \E z \in ZoomInputs :
        /\ z >= Val(deckgl).viewState.minZoom
        /\ z <= Val(deckgl).viewState.maxZoom
        /\ LET g == onViewStateChange(Globals, z)
           IN  /\ graphData' = g.graphData
               /\ deckgl' = g.deckgl
               /\ currentZoom' = g.currentZoom
               /\ searchMatches' = g.searchMatches
    /\ UNCHANGED <<pc, rawData, idx, departments, trips, totalEmissions,
                   inputValue, searchTimeout, sinceInput>>

\* The 'input' listener of the search box (app.js 220-226): the pending
\* timer is cleared and a new one is set.
SearchInput ==
    /\ pc = "ready"
    /\ \E text \in SearchTerms : inputValue' = text
    /\ searchTimeout' = setTimeout(clearTimeout(searchTimeout), SEARCH_DELAY)
    /\ sinceInput' = 0
    /\ UNCHANGED <<pc, rawData, idx, departments, trips, totalEmissions,
                   graphData, deckgl, currentZoom, searchMatches>>

\* 100 ms pass: every pending timer has that much less time left.
TimePasses ==
    /\ pc = "ready"
    /\ searchTimeout' = {Max(0, t - 100) : t \in searchTimeout}
    /\ sinceInput' = SEARCH_DELAY - Max(0, SEARCH_DELAY - sinceInput - 100)
    /\ UNCHANGED <<pc, rawData, idx, departments, trips, totalEmissions,
                   graphData, deckgl, currentZoom, searchMatches, inputValue>>

\* A timer that is due runs its callback (app.js 222-225).
SearchTimeoutFires ==
    /\ pc = "ready"
    /\ 0 \in searchTimeout
    /\ searchTimeout' = searchTimeout \ {0}
    /\ LET g == searchCallback(Globals, inputValue)
       IN  /\ graphData' = g.graphData
           /\ deckgl' = g.deckgl
           /\ currentZoom' = g.currentZoom
           /\ searchMatches' = g.searchMatches
    /\ UNCHANGED <<pc, rawData, idx, departments, trips, totalEmissions,
                   inputValue, sinceInput>>

\* The 'change' listeners of the two checkboxes (app.js 229-230).
CheckboxChange ==
    /\ pc = "ready"
    /\ deckgl' = updateLayers(deckgl, graphData, currentZoom, searchMatches)
    /\ UNCHANGED <<pc, rawData, idx, departments, trips, totalEmissions,
                   graphData, currentZoom, searchMatches, inputValue,
                   searchTimeout, sinceInput>>

Next ==
    \/ ParseRow
    \/ ParseComplete
    \/ ParseError
    \/ ForEachRow
    \/ ReturnGraphData
    \/ InitDeckGL
    \/ ViewStateChange
    \/ SearchInput
    \/ TimePasses
    \/ SearchTimeoutFires
    \/ CheckboxChange

Spec == Init /\ [][Next]_vars

----------------------------------------------------------------------------
(* Properties *)

RECURSIVE SumSeq(_)
SumSeq(s) == IF s = <<>> THEN 0 ELSE Head(s) + SumSeq(Tail(s))

\* The node list, once processEmissionsData has returned.
Built == graphData # NULL
Nodes == Val(graphData).nodes
NodesOfType(t) == SelectSeq(Nodes, LAMBDA n : n.type = t)
GroupTypes == {"purpose-group", "transport-group", "route-group"}

\* The path of a node: its department, purpose, transport mode and route,
\* as far as its type has them.
NodePath(n) ==
    CASE n.type = "department"      -> <<n.name>>
      [] n.type = "purpose-group"   -> <<n.department, n.name>>
      [] n.type = "transport-group" -> <<n.department, n.purpose, n.name>>
      [] n.type = "route-group"     -> <<n.department, n.purpose, n.transport, n.name>>
      [] n.type = "trip"            -> <<n.department, n.purpose, n.transportMode, n.route>>

\* The emissions of the Trip nodes below the node of path prefix, in node
\* order.
TripEmissions(prefix) ==
    LET ts == SelectSeq(Nodes, LAMBDA n : /\ n.type = "trip"
                                          /\ SubSeq(NodePath(n), 1, Len(prefix)) = prefix)
    IN  [k \in 1..Len(ts) |-> ts[k].emissions]

\* C1: every Department node's emissions is the sum of the emissions of the
\* Trip nodes of that department and its tripCount is their number; the
\* departments array of the result holds the same Department objects.
C1_DepartmentSums ==
    Built =>
        /\ \A k \in 1..Len(Nodes) :
              Nodes[k].type = "department" =>
                  LET mine == TripEmissions(<<Nodes[k].name>>)
                  IN  /\ Nodes[k].emissions = SumSeq(mine)
                      /\ Nodes[k].tripCount = Len(mine)
        /\ Val(graphData).departments = NodesOfType("department")

\* Two Sales rows with emissions 100 and 300 gave one Sales node with
\* emissions 400 and tripCount 2.
C1_Witness ==
    /\ Built
    /\ Len(NodesOfType("department")) = 1
    /\ \E k \in 1..Len(Nodes) :
          /\ Nodes[k].type = "department"
          /\ Nodes[k].name = "Sales"
          /\ Nodes[k].emissions = 400
          /\ Nodes[k].tripCount = 2
    /\ Len(NodesOfType("trip")) = 2

\* C2: all node ids of the node list are pairwise distinct.
C2_IdsDistinct ==
    Built => \A j, k \in 1..Len(Nodes) : j # k => Nodes[j].id # Nodes[k].id

\* A row lacks the department field or the emission value.
MissingField(row) ==
    ~TruthyStr(row, "BusinessDept") \/ "CarbonEmission" \notin DOMAIN row

AcceptedRows == SelectSeq(rawData, rowAccepted)

\* C3: the forEach step of a row that lacks the department or the emission
\* value changes neither the departments, nor the trips, nor the total, and
\* the loop goes on; the step of a row that has both adds exactly one trip;
\* and the result counts as trips exactly the rows that have both, and holds
\* their emissions as its total.
C3_MissingRowStep ==
    (pc = "forEach" /\ idx <= Len(rawData) /\ idx' = idx + 1) =>
        /\ MissingField(rawData[idx]) =>
              /\ UNCHANGED <<departments, trips, totalEmissions>>
              /\ pc' = "forEach"
        /\ (TruthyStr(rawData[idx], "BusinessDept")
              /\ TruthyNum(rawData[idx], "CarbonEmission")) =>
              Len(trips') = Len(trips) + 1

C3_ResultCounts ==
    pc = "initDeckGL" =>
        /\ Val(graphData).counts.trips = Len(AcceptedRows)
        /\ Len(NodesOfType("trip")) = Len(AcceptedRows)
        /\ Val(graphData).counts.departments =
              Cardinality({AcceptedRows[k].BusinessDept : k \in 1..Len(AcceptedRows)})
        /\ Val(graphData).totalEmissions =
              SumSeq([k \in 1..Len(AcceptedRows) |-> AcceptedRows[k].CarbonEmission])

C3_MissingRowsSkipped == [][C3_MissingRowStep]_vars /\ []C3_ResultCounts

\* processEmissionsData returned for an input that holds a row that lacks a
\* field and one complete row: one trip, and the five nodes of its path.
C3_Witness ==
    /\ pc = "initDeckGL"
    /\ \E i, j \in 1..Len(rawData) :
          /\ MissingField(rawData[i])
          /\ rowAccepted(rawData[j])
    /\ Val(graphData).counts.trips = 1
    /\ Len(Nodes) = 5

\* The grouping keys of a row, with the defaults of missing columns.
RowPurpose(row) == OrDefault(row, "Purpose", "Other")
RowTransport(row) == OrDefault(row, "ShippingType", "Other")
RowRoute(row) == OrDefault(row, "DepartureCity", "Unknown") \o " -> "
                     \o OrDefault(row, "ArrivalCity", "Unknown")
RowPath(row, depth) ==
    SubSeq(<<row.BusinessDept, RowPurpose(row), RowTransport(row), RowRoute(row)>>,
           1, depth)

GroupDepth(t) ==
    CASE t = "department" -> 1 [] t = "purpose-group" -> 2
      [] t = "transport-group" -> 3 [] t = "route-group" -> 4

\* C4: the node list holds exactly one node of each grouping type per
\* distinct path of that depth among the accepted rows, one Trip node per
\* accepted row, and nothing else.
C4_NodeSet ==
    pc = "initDeckGL" =>
        /\ \A t \in {"department"} \cup GroupTypes :
              LET ofType == NodesOfType(t)
                  paths == {RowPath(AcceptedRows[k], GroupDepth(t)) :
                                k \in 1..Len(AcceptedRows)}
              IN  /\ {NodePath(ofType[k]) : k \in 1..Len(ofType)} = paths
                  /\ Len(ofType) = Cardinality(paths)
        /\ LET tripNodes == NodesOfType("trip")
           IN  /\ Len(tripNodes) = Len(AcceptedRows)
               /\ \A r \in Rows :
                     rowAccepted(r) =>
                        Cardinality({k \in 1..Len(tripNodes) :
                                        /\ NodePath(tripNodes[k]) = RowPath(r, 4)
                                        /\ tripNodes[k].emissions = r.CarbonEmission})
                        = Cardinality({k \in 1..Len(AcceptedRows) :
                                        /\ RowPath(AcceptedRows[k], 4) = RowPath(r, 4)
                                        /\ AcceptedRows[k].CarbonEmission = r.CarbonEmission})
        /\ \A k \in 1..Len(Nodes) :
              Nodes[k].type \in {"department", "trip"} \cup GroupTypes
        /\ Len(Nodes) = Len(NodesOfType("department")) + Len(NodesOfType("purpose-group"))
                          + Len(NodesOfType("transport-group"))
                          + Len(NodesOfType("route-group")) + Len(NodesOfType("trip"))

\* A single accepted row gave exactly five nodes, one of each type.
C4_Witness ==
    /\ pc = "initDeckGL"
    /\ Len(AcceptedRows) = 1
    /\ Len(Nodes) = 5
    /\ \A t \in {"department", "trip"} \cup GroupTypes : Len(NodesOfType(t)) = 1

\* C5: every purpose-group, transport-group and route-group node carries an
\* aggregate metric equal to the sum of the emissions of the Trip nodes of
\* its subtree.
C5_GroupMetric ==
    Built =>
        \A k \in 1..Len(Nodes) :
            Nodes[k].type \in GroupTypes =>
                /\ "emissions" \in DOMAIN Nodes[k]
                /\ Nodes[k].emissions = SumSeq(TripEmissions(NodePath(Nodes[k])))

\* C6: every group node and Trip node has the color of the Department node
\* named by its department field.
C6_ColorInherited ==
    Built =>
        \A k \in 1..Len(Nodes) :
            Nodes[k].type # "department" =>
                \E d \in 1..Len(Nodes) :
                    /\ Nodes[d].type = "department"
                    /\ Nodes[d].name = Nodes[k].department
                    /\ Nodes[k].color = Nodes[d].color

\* A department of the color table and an unknown department, gray, both
\* with descendants.
C6_Witness ==
    /\ Built
    /\ \E j, k \in 1..Len(Nodes) :
          /\ Nodes[j].type = "trip" /\ Nodes[j].color = <<128, 128, 128>>
          /\ Nodes[k].type = "trip" /\ Nodes[k].color = <<56, 189, 248>>
          /\ Nodes[k].department = "Sales"

\* The rendering surface exists; the layer list it was handed.
Rendering == deckgl # NULL
Layers == Val(deckgl).layers
LayerIds == [k \in 1..Len(Layers) |-> Layers[k].id]

\* The lower zoom threshold of each kind, in tenths: Department 0, Trip 4,
\* Purpose 4, Transport 6, Route 7.5.
KindMinZoom ==
    [k \in {"department", "trip", "purpose", "transport", "route"} |->
        CASE k = "department" -> 0 [] k = "trip" -> 40 [] k = "purpose" -> 40
          [] k = "transport" -> 60 [] k = "route" -> 75]

\* The kinds with opacity above 0 at a zoom.
ActiveKinds(zoom) == {k \in DOMAIN KindMinZoom : getLayerOpacity(k, zoom) > 0}

\* C7: at the current zoom getLayerOpacity is 0 for a kind whose minimum is
\* above the zoom and 1 for a kind whose minimum is at or below it; the
\* kinds with opacity above 0 are Department alone at zoom 3.0, include
\* Department, Trip and Purpose at zoom 5.0, and are all five at zoom 8.0.
C7_OpacityByThreshold ==
    /\ \A k \in DOMAIN KindMinZoom :
          getLayerOpacity(k, currentZoom) =
              IF currentZoom < KindMinZoom[k] THEN 0 ELSE 100
    /\ currentZoom = 30 => ActiveKinds(currentZoom) = {"department"}
    /\ currentZoom = 50 => {"department", "trip", "purpose"} \subseteq ActiveKinds(currentZoom)
    /\ currentZoom = 80 => ActiveKinds(currentZoom) = DOMAIN KindMinZoom

\* The camera sits exactly on the Trip and Purpose threshold, and the trip
\* layer composed with that opacity is on the surface.
C7_Witness ==
    /\ Rendering
    /\ currentZoom = 40
    /\ getLayerOpacity("trip", currentZoom) = 100
    /\ getLayerOpacity("transport", currentZoom) = 0
    /\ \E k \in 1..Len(Layers) : Layers[k].id = "trip-layer" /\ Layers[k].opacity = 100

\* The highlight set is not empty.
Highlighting == searchMatches # NULL /\ Len(Val(searchMatches)) > 0

\* C8: whenever the highlight set is not empty, the search-highlight layer
\* is the last element of the layer list handed to the rendering surface.
C8_HighlightLast ==
    (Rendering /\ Highlighting) =>
        /\ Len(Layers) > 0
        /\ Layers[Len(Layers)].id = "search-highlight"

\* The place of each context layer in the draw order, bottom to top.
DrawOrder ==
    <<"purpose-highlight-layer", "transport-highlight-layer", "route-highlight-layer",
      "trip-layer", "transport-label-layer", "route-label-layer",
      "purpose-label-layer", "department-circle-layer", "department-text-layer">>
DrawRank(id) == CHOOSE r \in 1..Len(DrawOrder) : DrawOrder[r] = id

\* The layers of the list other than the search highlight.
ContextLayerIds == SelectSeq(LayerIds, LAMBDA id : id # "search-highlight")

\* C9: the context layers on the surface are layers of the fixed draw order
\* and appear in that order, each at most once; and the department label
\* layer, when present, comes immediately after the department circle layer.
C9_DrawOrder ==
    Rendering =>
        /\ \A k \in 1..Len(ContextLayerIds) :
              \E r \in 1..Len(DrawOrder) : DrawOrder[r] = ContextLayerIds[k]
        /\ \A j, k \in 1..Len(ContextLayerIds) :
              j < k => DrawRank(ContextLayerIds[j]) < DrawRank(ContextLayerIds[k])
        /\ \A k \in 1..Len(LayerIds) :
              LayerIds[k] = "department-text-layer" =>
                  k > 1 /\ LayerIds[k - 1] = "department-circle-layer"

\* All nine context layers are on the surface (zoom between 7.5 and 12, a
\* node list with nodes of every kind).
C9_Witness ==
    /\ Rendering
    /\ ContextLayerIds = DrawOrder

\* C10: every layer of the composed list has a filtered node list that is
\* not empty; for an empty node list with no highlight set the composed
\* list is empty at every zoom.
C10_NoEmptyLayer ==
    Rendering =>
        /\ \A k \in 1..Len(Layers) : Len(Layers[k].data) > 0
        /\ (Len(Nodes) = 0 /\ ~Highlighting) => Layers = <<>>

\* The layers of the list that answer to the pointer.
PickableLayerIds == {Layers[k].id : k \in {j \in 1..Len(Layers) : Layers[j].pickable}}

\* C11: in every composed layer list the only layers with the pickable flag
\* set are the department circle layer and the trip layer; the group
\* background layers, the label layers (the department text label among
\* them) and the search highlight layer are not pickable.
C11_OnlyMarkersPickable ==
    Rendering => PickableLayerIds \subseteq {"department-circle-layer", "trip-layer"}

\* C12: once the node list has been built, no viewport-change event and no
\* search-input event (nor its timer) creates, removes or modifies a node:
\* the node list, with every node's id, kind, position, radius, color and
\* emissions, and the rest of graphData are the same after every step.
C12_NodesUnchanged ==
    [][Built => /\ Nodes' = Nodes
                /\ graphData' = graphData]_vars

\* Viewport-change and search-input events have acted on a node list that
\* is not empty: the camera is at zoom 8 and the highlight set of "sales"
\* is on the surface.
C12_Witness ==
    /\ Rendering
    /\ Len(Nodes) > 0
    /\ currentZoom = 80
    /\ inputValue = "sales"
    /\ Highlighting
    /\ Layers[1].id = "search-highlight"

\* What one step of the search box may do: the timer callback runs only
\* when SEARCH_DELAY ms have passed since the last input event; an input
\* event leaves one pending timer, with the full delay ahead of it, and
\* recomputes nothing; the highlight set changes in no other step than a
\* run of the timer callback.
C13_DebounceStep ==
    /\ SearchTimeoutFires => sinceInput >= SEARCH_DELAY
    /\ SearchInput => /\ searchTimeout' = {SEARCH_DELAY}
                      /\ searchMatches' = searchMatches
                      /\ deckgl' = deckgl
    /\ searchMatches' # searchMatches => SearchTimeoutFires

\* With no timer pending the quiet period is over, the highlight set is
\* searchNodes of the text last typed, and the layer list on the surface
\* is the one composed from that highlight set and currentZoom.
C13_Settled ==
    (Rendering /\ searchTimeout = {}) =>
        /\ sinceInput >= SEARCH_DELAY
        /\ searchMatches = searchNodes(Nodes, inputValue)
        /\ Layers = getLayers(graphData, currentZoom, searchMatches)

\* C13: search input is debounced: an input event arriving while a timer is
\* pending cancels that timer, so the highlight set is recomputed only
\* after 200 ms without an input event; once the timer has run, the
\* highlight set equals searchNodes(nodes, text of the last input event) and
\* the layer list is the one composed from it and the current zoom.
C13_Debounced == [][C13_DebounceStep]_vars /\ []C13_Settled

\* The timer of the input "sales" has run after its quiet period, at a
\* zoom the camera was moved to: the matching nodes are highlighted.
C13_Witness ==
    /\ Rendering
    /\ searchTimeout = {}
    /\ sinceInput = SEARCH_DELAY
    /\ inputValue = "sales"
    /\ currentZoom = 60
    /\ Highlighting
    /\ searchMatches = searchNodes(Nodes, "sales")

\* A layer with this id is in the list on the surface.
HasLayer(id) == \E k \in 1..Len(Layers) : Layers[k].id = id

\* C14: given nodes of the kind, the transport-group label layer is in the
\* composed list exactly when 6 <= zoom < 12 and the purpose-group label
\* layer exactly when 4 <= zoom < 12; both are gone at zoom 12 and above,
\* while the route-group label layer is present at every zoom >= 7.5.
C14_LabelWindows ==
    Rendering =>
        /\ Len(NodesOfType("transport-group")) > 0 =>
              (HasLayer("transport-label-layer") <=> (currentZoom >= 60 /\ currentZoom < 120))
        /\ Len(NodesOfType("purpose-group")) > 0 =>
              (HasLayer("purpose-label-layer") <=> (currentZoom >= 40 /\ currentZoom < 120))
        /\ (Len(NodesOfType("route-group")) > 0 /\ currentZoom >= 75) =>
              HasLayer("route-label-layer")

\* The camera is at zoom 12 over a node list with groups of the three
\* kinds: the transport and purpose labels are gone, the route labels stay.
C14_Witness ==
    /\ Rendering
    /\ currentZoom = 120
    /\ Len(NodesOfType("transport-group")) > 0
    /\ Len(NodesOfType("purpose-group")) > 0
    /\ Len(NodesOfType("route-group")) > 0
    /\ ~HasLayer("transport-label-layer")
    /\ ~HasLayer("purpose-label-layer")
    /\ HasLayer("route-label-layer")

\* The zoom of the camera of the rendering surface.
CameraZoom == Val(deckgl).viewState.zoom

\* C15: at every moment after the rendering surface is created, the layer
\* list it holds is the one composed for the camera's current zoom, after
\* every viewport-change event and also before the first one, when the
\* camera is at its initial zoom 3.5.
C15_LayersForCameraZoom ==
    Rendering => Layers = getLayers(graphData, CameraZoom, searchMatches)

\* The row has an emission value, and it is 0.
ZeroEmission(row) == "CarbonEmission" \in DOMAIN row /\ row.CarbonEmission = 0

\* The forEach step of a row whose emission value is 0 changes neither the
\* departments (their emissions and tripCount among them), nor the trips,
\* nor the total; a step that changes one of them is the step of a row
\* whose department and emission value are both truthy.
C16_ZeroRowStep ==
    (pc = "forEach" /\ idx <= Len(rawData) /\ idx' = idx + 1) =>
        /\ ZeroEmission(rawData[idx]) =>
              UNCHANGED <<departments, trips, totalEmissions>>
        /\ <<departments, trips, totalEmissions>>' # <<departments, trips, totalEmissions>> =>
              /\ TruthyStr(rawData[idx], "BusinessDept")
              /\ TruthyNum(rawData[idx], "CarbonEmission")

\* The rows of rawData whose emission value is not 0.
NonZeroRows == SelectSeq(rawData, LAMBDA row : ~ZeroEmission(row))

\* The result has no Department node and no Trip node of a row whose
\* emission value is 0, and its counts are those of the other rows.
C16_ZeroRowResult ==
    pc = "initDeckGL" =>
        /\ \A k \in 1..Len(rawData) :
              ZeroEmission(rawData[k]) =>
                  \A n \in 1..Len(Nodes) :
                      /\ Nodes[n].id # "trip_" \o rawData[k].TripID
                      /\ (Nodes[n].type = "department" /\ Nodes[n].name = rawData[k].BusinessDept)
                            => \E j \in 1..Len(rawData) :
                                  /\ TruthyStr(rawData[j], "BusinessDept")
                                  /\ TruthyNum(rawData[j], "CarbonEmission")
                                  /\ rawData[j].BusinessDept = rawData[k].BusinessDept
        /\ Val(graphData).counts.trips =
              Len(SelectSeq(NonZeroRows, LAMBDA row : ~MissingField(row)))

\* C16: a row whose emission value is present but equal to 0 is treated
\* like a row with no emission value: processEmissionsData skips it, so it
\* creates no Department node and no Trip node and changes no emissions
\* total, tripCount or count; a row is accepted only when both its
\* department and its emission value are truthy.
C16_ZeroEmissionSkipped == [][C16_ZeroRowStep]_vars /\ []C16_ZeroRowResult

\* processEmissionsData has returned for a table with a row of emission 0
\* and a complete row: one trip, and the five nodes of the complete row.
C16_Witness ==
    /\ pc = "initDeckGL"
    /\ \E i, j \in 1..Len(rawData) :
          /\ ZeroEmission(rawData[i])
          /\ TruthyNum(rawData[j], "CarbonEmission")
          /\ TruthyStr(rawData[j], "BusinessDept")
    /\ Val(graphData).counts.trips = 1
    /\ Val(graphData).counts.departments = 1
    /\ Len(Nodes) = 5

\* C17: for a node list with at least one Department, the composed layer
\* list is not empty, and holds the department circle layer and the
\* department label layer, at every zoom the camera can reach, from -2 to
\* 20, negative zoom included.
C17_DepartmentsAtEveryZoom ==
    (Rendering /\ Len(NodesOfType("department")) > 0) =>
        /\ Layers # <<>>
        /\ HasLayer("department-circle-layer")
        /\ HasLayer("department-text-layer")

====
